---- MODULE Spec2Model ----
(***************************************************************************)
(* BiliBiliIE._real_extract (youtube_dl/extractor/bilibili.py) as a state  *)
(* machine: one extraction call, from the URL to the returned info dict or *)
(* the raised error.                                                       *)
(*                                                                         *)
(* Python values are represented as follows.                               *)
(*   - None is the empty tuple; a value v that may be None is <<v>>.       *)
(*   - A dict is a function from key strings; a key the dict lacks is not  *)
(*     in its DOMAIN (d[k] raises KeyError, d.get(k) gives None).          *)
(*   - A list is a sequence; Python index i is TLA+ index i + 1.           *)
(*   - A URL is the sequence of its text fragments, so that a substring    *)
(*     test and a regex group are computed from the text.                  *)
(*   - A query string is the sequence of its <<key, value>> pairs.         *)
(*   - A float number of seconds is the pair <<whole, thousandths>>.       *)
(***************************************************************************)
EXTENDS Integers, Sequences, FiniteSets, TLC

VARIABLES
    pc,           \* position in _real_extract, "done" or "failed"
    url,          \* the argument of _real_extract
    video_id,     \* line 86
    webpage,      \* line 88
    cid,          \* line 90
    payload,      \* line 95
    sign,         \* line 96
    request,      \* the query of the GET issued at line 98 (None before it)
    video_info,   \* line 98
    idx,          \* loop index of line 104
    entries,      \* line 102
    title,        \* line 124
    description,  \* line 125
    timestamp,    \* line 126
    info,         \* line 130
    warnings,     \* warnings reported by non-fatal searches
    error,        \* the exception that ended the call
    result        \* the returned value

vars == <<pc, url, video_id, webpage, cid, payload, sign, request, video_info,
          idx, entries, title, description, timestamp, info, warnings, error,
          result>>

None == <<>>
Some(v) == <<v>>

-----------------------------------------------------------------------------
(* Bounds of the model.                                                    *)

\* the longest durl array of a stream descriptor
MaxParts == 2
\* the longest backup_url list of a durl record in the FormatResolver runs
MaxBackups == 2

-----------------------------------------------------------------------------
(* Program constants.                                                      *)

_APP_KEY == "6f90a59ac58a4123"
_BILIBILI_KEY == "0bfd84cc3940035173f35e6777508326"

-----------------------------------------------------------------------------
(* Inputs: URLs, pages and stream descriptors.                             *)

\* URLs that _VALID_URL matches: <<prefix, tld, "/video/av", digits, rest>>
Urls ==
    { <<"http://www.bilibili.", "tv", "/video/av", "1074402", "/">>,
      <<"http://www.bilibili.", "com", "/video/av", "1041170", "/">> }

\* the query strings pattern A, EmbedPlayer(..., "<query>"), may capture
EmbedPlayerTexts ==
    { << <<"aid", "7">> >>,
      << <<"cid", "12345">>, <<"cid", "999">> >> }

\* the query strings pattern B, the iframe src, may capture
IframeTexts ==
    { << <<"aid", "7">>, <<"cid", "678">> >> }

\* what the searches of _real_extract find in a page; None: no match
Pages ==
    [ embedPlayer : {None} \cup { Some(q) : q \in EmbedPlayerTexts },
      iframe      : {None} \cup { Some(q) : q \in IframeTexts },
      h1title     : {None, Some("a title")},
      description : {Some("a description")},
      thumbnail   : {Some("http://i/t.jpg")},
      time        : {None, Some("2014-04-20T16:51")},
      uploader    : {None, Some([id |-> "156160", name |-> "uploader"])} ]

\* a dict key that may be missing, or present with one of vals
Fields(k, vals) == {<<>>} \cup { k :> v : v \in vals }

PrimaryUrl == <<"http://x/a", ".mp4">>
HdBackup == <<"http://x/a_", "hd.mp4">>
HdBackup2 == <<"http://y/a_", "hd.mp4">>
PlainBackup == <<"http://x/b", ".flv">>

RECURSIVE SeqsUpTo(_, _)
SeqsUpTo(S, n) ==
    IF n = 0 THEN {<<>>}
    ELSE LET shorter == SeqsUpTo(S, n - 1)
         IN  shorter \cup { Append(s, x) : s \in shorter, x \in S }

\* durl records of the whole-pipeline runs; the backup lists are varied in
\* the FormatResolver runs
DurlRecords ==
    { [url |-> PrimaryUrl, backup_url |-> b] @@ s @@ l :
        b \in {<<PlainBackup, HdBackup>>},
        s \in Fields("size", {None, Some(100)}),
        l \in Fields("length", {Some(2000)}) }

\* durl records of the FormatResolver runs
ResolverRecords ==
    { [url |-> PrimaryUrl, backup_url |-> b, length |-> Some(5000)] @@ s :
        b \in SeqsUpTo({HdBackup, HdBackup2, PlainBackup}, MaxBackups),
        s \in Fields("size", {None, Some(100)}) }

VideoInfos ==
    { d @@ t :
        d \in Fields("durl", SeqsUpTo(DurlRecords, MaxParts)),
        t \in Fields("timelength", {Some(2000), Some(5000)}) }

-----------------------------------------------------------------------------
(* Helpers of the host framework and of the standard library.              *)

\* InfoExtractor._match_id: group 'id' of _VALID_URL
_match_id(u) == u[4]

\* InfoExtractor._search_regex over a list of patterns: the first pattern
\* that matches wins; matches[i] is the group pattern i captures, or None
RECURSIVE _search_regex(_)
_search_regex(matches) ==
    IF matches = <<>> THEN None
    ELSE IF Head(matches) # None THEN Head(matches)
    ELSE _search_regex(Tail(matches))

\* compat_parse_qs: key -> list of the key's values, in order
RECURSIVE ValuesOf(_, _)
ValuesOf(qs, k) ==
    IF qs = <<>> THEN <<>>
    ELSE IF Head(qs)[1] = k THEN <<Head(qs)[2]>> \o ValuesOf(Tail(qs), k)
    ELSE ValuesOf(Tail(qs), k)

compat_parse_qs(qs) ==
    [ k \in { qs[i][1] : i \in DOMAIN qs } |-> ValuesOf(qs, k) ]

\* hashlib.md5(...).hexdigest(): the digest of a text, as an uninterpreted
\* collision-free function of the text it is computed over
md5_hexdigest(text) == [md5 |-> text]

\* utils.int_or_none
int_or_none(v) == IF v = None THEN None ELSE v

\* utils.float_or_none(v, scale): v / scale as <<whole, thousandths>>
float_or_none(v, scale) ==
    IF v = None THEN None
    ELSE Some(<<v[1] \div scale, ((v[1] % scale) * 1000) \div scale>>)

\* dict.get
Get(d, k) == IF k \in DOMAIN d THEN d[k] ELSE None

\* utils.unified_timestamp: epoch seconds of a date string, None for None
unified_timestamp(s) ==
    IF s = None THEN None
    ELSE IF s[1] = "2014-04-20T16:51" THEN Some(1398012660)
    ELSE None

-----------------------------------------------------------------------------
(* _real_extract, lines 85-100: the page, the embedded id, the signed      *)
(* request.                                                                *)

Init ==
    /\ pc = "match_id"
    /\ url \in Urls
    /\ video_id = None
    /\ webpage = None
    /\ cid = None
    /\ payload = None
    /\ sign = None
    /\ request = None
    /\ video_info = None
    /\ idx = 0
    /\ entries = <<>>
    /\ title = None
    /\ description = None
    /\ timestamp = None
    /\ info = None
    /\ warnings = {}
    /\ error = "none"
    /\ result = None

\* an exception leaves _real_extract: nothing is returned
Raise(e) ==
    /\ pc' = "failed"
    /\ error' = e

MatchId ==
    /\ pc = "match_id"
    /\ video_id' = _match_id(url)
    /\ pc' = "download_webpage"
    /\ UNCHANGED <<url, webpage, cid, payload, sign, request, video_info, idx,
                   entries, title, description, timestamp, info, warnings,
                   error, result>>

DownloadWebpage ==
    /\ pc = "download_webpage"
    /\ \E page \in Pages : webpage' = page
    /\ pc' = "search_cid"
    /\ UNCHANGED <<url, video_id, cid, payload, sign, request, video_info, idx,
                   entries, title, description, timestamp, info, warnings,
                   error, result>>

DownloadWebpageFails ==
    /\ pc = "download_webpage"
    /\ Raise("ExtractorError: Unable to download webpage")
    /\ UNCHANGED <<url, video_id, webpage, cid, payload, sign, request,
                   video_info, idx, entries, title, description, timestamp,
                   info, warnings, result>>

SearchCid ==
    /\ pc = "search_cid"
    /\ LET m == _search_regex(<<webpage.embedPlayer, webpage.iframe>>)
       IN  IF m = None
           THEN Raise("RegexNotFoundError: Unable to extract player parameters")
                /\ UNCHANGED cid
           ELSE LET qs == compat_parse_qs(m[1])
                IN  IF "cid" \notin DOMAIN qs
                    THEN Raise("KeyError: cid") /\ UNCHANGED cid
                    ELSE /\ cid' = qs["cid"][1]
                         /\ pc' = "sign"
                         /\ UNCHANGED error
    /\ UNCHANGED <<url, video_id, webpage, payload, sign, request, video_info,
                   idx, entries, title, description, timestamp, info, warnings,
                   result>>

\* line 95: the payload, as the sequence of its key=value pairs
Payload(app_key, c) ==
    << <<"appkey", app_key>>, <<"cid", c>>, <<"otype", "json">>,
       <<"quality", "2">>, <<"type", "mp4">> >>

\* line 96 without the secret
SignWithoutSecret(p) == md5_hexdigest(<<p>>)

\* line 96
Sign(p) == md5_hexdigest(<<p, _BILIBILI_KEY>>)

SignRequest ==
    /\ pc = "sign"
    /\ payload' = Payload(_APP_KEY, cid)
    /\ sign' = Sign(payload')
    /\ pc' = "download_json"
    /\ UNCHANGED <<url, video_id, webpage, cid, request, video_info, idx,
                   entries, title, description, timestamp, info, warnings,
                   error, result>>

\* line 99: 'http://interface.bilibili.com/playurl?%s&sign=%s'
PlayUrlQuery(p, s) == p \o << <<"sign", s>> >>

DownloadJson ==
    /\ pc = "download_json"
    /\ request' = PlayUrlQuery(payload, sign)
    /\ \E vi \in VideoInfos : video_info' = vi
    /\ pc' = "enumerate_durl"
    /\ UNCHANGED <<url, video_id, webpage, cid, payload, sign, idx, entries,
                   title, description, timestamp, info, warnings, error,
                   result>>

DownloadJsonFails ==
    /\ pc = "download_json"
    /\ request' = PlayUrlQuery(payload, sign)
    /\ Raise("ExtractorError: Unable to download JSON metadata")
    /\ UNCHANGED <<url, video_id, webpage, cid, payload, sign, video_info, idx,
                   entries, title, description, timestamp, info, warnings,
                   result>>

-----------------------------------------------------------------------------
(* _real_extract, lines 102-122: one entry per durl record.                *)

\* line 113 with the two tiers exchanged
BackupPreferenceSwapped(backup_url) ==
    IF \E i \in DOMAIN backup_url : backup_url[i] = "hd.mp4" THEN -3 ELSE -2

\* line 113: backup URLs have lower priorities
BackupPreference(backup_url) ==
    IF \E i \in DOMAIN backup_url : backup_url[i] = "hd.mp4" THEN -2 ELSE -3

\* lines 109-114
RECURSIVE BackupFormats(_)
BackupFormats(backup_urls) ==
    IF backup_urls = <<>> THEN <<>>
    ELSE << [url |-> Head(backup_urls),
             preference |-> Some(BackupPreference(Head(backup_urls)))] >>
         \o BackupFormats(Tail(backup_urls))

\* InfoExtractor._sort_formats, by the preference field alone: a format
\* without a preference ranks above every backup tier
PreferenceRank(f) ==
    IF Get(f, "preference") = None THEN 0 ELSE f.preference[1]

\* insertion of f behind every format that ranks at least as high
RECURSIVE InsertFormat(_, _)
InsertFormat(sorted, f) ==
    IF sorted = <<>> THEN <<f>>
    ELSE IF PreferenceRank(Head(sorted)) >= PreferenceRank(f)
         THEN <<Head(sorted)>> \o InsertFormat(Tail(sorted), f)
         ELSE <<f>> \o sorted

\* a stable sort, best format first
RECURSIVE _sort_formats(_)
_sort_formats(formats) ==
    IF formats = <<>> THEN <<>>
    ELSE InsertFormat(_sort_formats(SubSeq(formats, 1, Len(formats) - 1)),
                      formats[Len(formats)])

\* lines 105-116; durl has the keys url, size and backup_url
Formats(durl) ==
    _sort_formats(
        << [url |-> durl.url, filesize |-> int_or_none(durl.size)] >>
        \o BackupFormats(durl.backup_url))

\* line 119
PartId(vid, n) == vid \o "_part" \o ToString(n)

\* lines 118-122; i is the 0-based index of enumerate
Entry(vid, i, durl) ==
    [ id |-> PartId(vid, i),
      duration |-> float_or_none(Get(durl, "length"), 1000),
      formats |-> Formats(durl) ]

\* the keys lines 106-109 subscript
DurlKeys == {"url", "size", "backup_url"}

MissingKey(durl) == CHOOSE k \in DurlKeys : k \notin DOMAIN durl

\* line 104, entering the loop: video_info['durl']
EnumerateDurl ==
    /\ pc = "enumerate_durl"
    /\ IF "durl" \notin DOMAIN video_info
       THEN Raise("KeyError: durl")
       ELSE /\ pc' = IF video_info.durl = <<>> THEN "search_title" ELSE "durl_loop"
            /\ UNCHANGED error
    /\ idx' = 0
    /\ entries' = <<>>
    /\ UNCHANGED <<url, video_id, webpage, cid, payload, sign, request,
                   video_info, title, description, timestamp, info, warnings,
                   result>>

\* lines 104-122, one iteration
DurlLoop ==
    /\ pc = "durl_loop"
    /\ LET durl == video_info.durl[idx + 1]
       IN  IF ~(DurlKeys \subseteq DOMAIN durl)
           THEN Raise("KeyError: " \o MissingKey(durl))
                /\ UNCHANGED <<idx, entries>>
           ELSE /\ entries' = Append(entries, Entry(video_id, idx, durl))
                /\ idx' = idx + 1
                /\ pc' = IF idx + 1 = Len(video_info.durl)
                         THEN "search_title" ELSE "durl_loop"
                /\ UNCHANGED error
    /\ UNCHANGED <<url, video_id, webpage, cid, payload, sign, request,
                   video_info, title, description, timestamp, info, warnings,
                   result>>

-----------------------------------------------------------------------------
(* _real_extract, lines 124-146: the page's metadata.                      *)

\* lines 124-125 with the title searched with fatal=False
SearchTitleNonFatal ==
    /\ pc = "search_title"
    /\ title' = IF webpage.h1title = None THEN None ELSE webpage.h1title[1]
    /\ description' = webpage.description
    /\ pc' = "search_timestamp"
    /\ UNCHANGED <<url, video_id, webpage, cid, payload, sign, request,
                   video_info, idx, entries, timestamp, info, warnings, error,
                   result>>

\* lines 124-125: the title search is fatal, the description is not
SearchTitle ==
    /\ pc = "search_title"
    /\ IF webpage.h1title = None
       THEN Raise("RegexNotFoundError: Unable to extract title")
            /\ UNCHANGED <<title, description>>
       ELSE /\ title' = webpage.h1title[1]
            /\ description' = webpage.description
            /\ pc' = "search_timestamp"
            /\ UNCHANGED error
    /\ UNCHANGED <<url, video_id, webpage, cid, payload, sign, request,
                   video_info, idx, entries, timestamp, info, warnings, result>>

\* lines 126-127 without fatal=False
SearchTimestampFatal ==
    /\ pc = "search_timestamp"
    /\ IF webpage.time = None
       THEN Raise("RegexNotFoundError: Unable to extract upload time")
            /\ UNCHANGED timestamp
       ELSE /\ timestamp' = unified_timestamp(webpage.time)
            /\ pc' = "build_info"
            /\ UNCHANGED error
    /\ UNCHANGED <<url, video_id, webpage, cid, payload, sign, request,
                   video_info, idx, entries, title, description, info,
                   warnings, result>>

\* lines 126-127: fatal=False, a missing match is reported and gives None
SearchTimestamp ==
    /\ pc = "search_timestamp"
    /\ timestamp' = unified_timestamp(webpage.time)
    /\ warnings' = IF webpage.time = None
                   THEN warnings \cup {"unable to extract upload time"}
                   ELSE warnings
    /\ pc' = "build_info"
    /\ UNCHANGED <<url, video_id, webpage, cid, payload, sign, request,
                   video_info, idx, entries, title, description, info, error,
                   result>>

\* lines 130-146
Info(vid, t, d, ts, page, vi) ==
    LET base == [ id |-> vid,
                  title |-> t,
                  description |-> d,
                  timestamp |-> ts,
                  thumbnail |-> page.thumbnail,
                  duration |-> float_or_none(Get(vi, "timelength"), 1000) ]
    IN  IF page.uploader # None
        THEN [ uploader |-> page.uploader[1].name,
               uploader_id |-> page.uploader[1].id ] @@ base
        ELSE base

BuildInfo ==
    /\ pc = "build_info"
    /\ info' = Info(video_id, title, description, timestamp, webpage, video_info)
    /\ pc' = "assemble"
    /\ UNCHANGED <<url, video_id, webpage, cid, payload, sign, request,
                   video_info, idx, entries, title, description, timestamp,
                   warnings, error, result>>

-----------------------------------------------------------------------------
(* _real_extract, lines 148-163: the returned value.                       *)

\* line 149 with the entry's own keys kept
UpdateEntryKeepsOwn(entry, i) == entry @@ i

\* line 149, dict.update: the keys of i replace those of entry
UpdateEntry(entry, i) == i @@ entry

\* lines 154-155 without the + 1
RenumberZeroBased(vid, es) ==
    [ n \in DOMAIN es |-> [es[n] EXCEPT !.id = vid \o "_part" \o ToString(n - 1)] ]

\* lines 154-155
Renumber(vid, es) ==
    [ n \in DOMAIN es |-> [es[n] EXCEPT !.id = PartId(vid, (n - 1) + 1)] ]

\* lines 151-163 without the single-entry branch
FinalResultAlwaysWrapped(vid, t, d, es) ==
    [ _type |-> "multi_video",
      id |-> vid,
      title |-> t,
      description |-> d,
      entries |-> [ n \in DOMAIN es |->
                      [es[n] EXCEPT !.id = vid \o "_part" \o ToString(n)] ] ]

\* lines 151-163 with len(entries) >= 1 for len(entries) == 1
FinalResultFirstOfAny(vid, t, d, es) ==
    IF Len(es) >= 1
    THEN es[1]
    ELSE [ _type |-> "multi_video",
           id |-> vid,
           title |-> t,
           description |-> d,
           entries |-> es ]

\* lines 151-163
FinalResult(vid, t, d, es) ==
    IF Len(es) = 1
    THEN es[1]
    ELSE [ _type |-> "multi_video",
           id |-> vid,
           title |-> t,
           description |-> d,
           entries |-> Renumber(vid, es) ]

Assemble ==
    /\ pc = "assemble"
    /\ entries' = [ n \in DOMAIN entries |-> UpdateEntry(entries[n], info) ]
    /\ result' = FinalResult(video_id, title, description, entries')
    /\ pc' = "done"
    /\ UNCHANGED <<url, video_id, webpage, cid, payload, sign, request,
                   video_info, idx, title, description, timestamp, info,
                   warnings, error>>

Next ==
    \/ MatchId
    \/ DownloadWebpage
    \/ DownloadWebpageFails
    \/ SearchCid
    \/ SignRequest
    \/ DownloadJson
    \/ DownloadJsonFails
    \/ EnumerateDurl
    \/ DurlLoop
    \/ SearchTitle
    \/ SearchTimestamp
    \/ BuildInfo
    \/ Assemble

Spec == Init /\ [][Next]_vars

-----------------------------------------------------------------------------
(* The FormatResolver runs: the loop body of lines 104-122 applied to one  *)
(* durl record, with backup lists of up to MaxBackups URLs.                *)

InitFormats ==
    /\ pc = "durl_loop"
    /\ url \in Urls
    /\ video_id = _match_id(url)
    /\ webpage = None
    /\ cid = None
    /\ payload = None
    /\ sign = None
    /\ request = None
    /\ \E durl \in ResolverRecords : video_info = [durl |-> <<durl>>]
    /\ idx = 0
    /\ entries = <<>>
    /\ title = None
    /\ description = None
    /\ timestamp = None
    /\ info = None
    /\ warnings = {}
    /\ error = "none"
    /\ result = None

NextFormats == DurlLoop

SpecFormats == InitFormats /\ [][NextFormats]_vars

-----------------------------------------------------------------------------
(* Vocabulary of the properties.                                           *)

Terminal == pc \in {"done", "failed"}

\* the digits after "av" in the input URL
UrlDigits == url[4]

\* the durl array of the received stream descriptor
Durl == video_info.durl

\* a returned value that is one entry, not a collection
IsSingleEntry(r) ==
    /\ "_type" \notin DOMAIN r
    /\ "entries" \notin DOMAIN r
    /\ "formats" \in DOMAIN r

IsCollection(r) ==
    /\ "_type" \in DOMAIN r
    /\ r._type = "multi_video"
    /\ "entries" \in DOMAIN r
    /\ "formats" \notin DOMAIN r

\* the entries a returned value carries, in order
ResultEntries(r) == IF IsSingleEntry(r) THEN <<r>> ELSE r.entries

\* a durl record has no usable value under key k
Lacks(durl, k) == k \notin DOMAIN durl \/ durl[k] = None

\* the first embedded-id pattern that matches a page captures a cid
PageHasCid(page) ==
    LET HasCid(text) == \E i \in DOMAIN text : text[i][1] = "cid"
    IN  IF page.embedPlayer # None THEN HasCid(page.embedPlayer[1])
        ELSE page.iframe # None /\ HasCid(page.iframe[1])

IsHd(u) == \E i \in DOMAIN u : u[i] = "hd.mp4"
IsPlain(u) == ~IsHd(u)

FormatUrls(formats) == [ n \in DOMAIN formats |-> formats[n].url ]

TitleError == "RegexNotFoundError: Unable to extract title"
PlayerParametersError == "RegexNotFoundError: Unable to extract player parameters"
UploadTimeWarning == "unable to extract upload time"

-----------------------------------------------------------------------------
(* C1, as stated: a durl array of length 1 gives a single entry, returned  *)
(* without a collection wrapper, whose id is "<videoId>_part0".            *)
C1_SingleEntryIdIsPart0 ==
    (pc = "done" /\ Len(Durl) = 1) =>
        /\ IsSingleEntry(result)
        /\ result.id = UrlDigits \o "_part0"

(* C1, amended: a durl array of length 1 gives a single entry, returned    *)
(* without a collection wrapper, whose id is the VideoId itself (the       *)
(* temporary "<videoId>_part0" id is replaced when the metadata is merged).*)
C1_SingleEntryFlattened ==
    (pc = "done" /\ Len(Durl) = 1) =>
        /\ IsSingleEntry(result)
        /\ result.id = UrlDigits
        /\ result.formats = entries[1].formats
        /\ result.title = webpage.h1title[1]

C1_Witness ==
    /\ pc = "done"
    /\ Len(Durl) = 1
    /\ IsSingleEntry(result)
    /\ result.id = "1041170"

(* C2: a successful extraction of a single-part video returns an entry     *)
(* whose id is the VideoId captured from the URL, the digits after "av",   *)
(* with no part suffix.                                                    *)
C2_SinglePartIdIsVideoId ==
    (pc = "done" /\ Len(Durl) = 1) =>
        /\ result.id = UrlDigits
        /\ result.id \notin { UrlDigits \o "_part" \o ToString(n) : n \in 0..MaxParts }
        /\ (url[2] = "tv" => result.id = "1074402")

C2_Witness ==
    /\ pc = "done"
    /\ Len(Durl) = 1
    /\ url[2] = "tv"
    /\ result.id = "1074402"

(* C3: a durl array of N >= 2 records gives a collection carrying the      *)
(* VideoId, the title and the description, with exactly N entries in the   *)
(* order of the durl array, the entry of durl index i (0-based) having id  *)
(* "<videoId>_part<i+1>".                                                  *)
C3_MultiPartCollection ==
    (pc = "done" /\ Len(Durl) >= 2) =>
        /\ IsCollection(result)
        /\ result.id = UrlDigits
        /\ result.title = webpage.h1title[1]
        /\ result.description = webpage.description
        /\ Len(result.entries) = Len(Durl)
        /\ \A i \in 0..(Len(Durl) - 1) :
             /\ result.entries[i + 1].id = UrlDigits \o "_part" \o ToString(i + 1)
             /\ result.entries[i + 1].formats = Formats(Durl[i + 1])

C3_Witness ==
    /\ pc = "done"
    /\ Len(Durl) = 2
    /\ Formats(Durl[1]) # Formats(Durl[2])
    /\ result.entries[1].id = "1074402_part1"
    /\ result.entries[2].id = "1074402_part2"
    /\ result.entries[2].formats = Formats(Durl[2])

(* C4: a durl record with k >= 0 backup URLs gets exactly k+1 formats:     *)
(* the primary first, then every backup whose URL contains "hd.mp4", then  *)
(* every other backup, each tier in its original order; backups            *)
(* [b1 with "hd.mp4", b2 without] give [primary, b1, b2] and no backups    *)
(* give exactly one format.                                                *)
C4_FormatOrder ==
    (pc = "search_title" /\ Len(entries) = 1) =>
        LET durl == Durl[1]
            formats == entries[1].formats
        IN  /\ Len(formats) = Len(durl.backup_url) + 1
            /\ FormatUrls(formats) =
                   <<durl.url>> \o SelectSeq(durl.backup_url, IsHd)
                                \o SelectSeq(durl.backup_url, IsPlain)
            /\ "filesize" \in DOMAIN formats[1]
            /\ (durl.backup_url = <<HdBackup, PlainBackup>> =>
                   FormatUrls(formats) = <<durl.url, HdBackup, PlainBackup>>)
            /\ (durl.backup_url = <<>> => Len(formats) = 1)

C4_Witness ==
    /\ pc = "search_title"
    /\ Len(entries) = 1
    /\ Durl[1].backup_url = <<PlainBackup, HdBackup>>
    /\ FormatUrls(entries[1].formats) = <<PrimaryUrl, HdBackup, PlainBackup>>

(* C5, as stated: in every returned result each entry's duration is its    *)
(* own durl record's length divided by 1000 when the length is present,    *)
(* and unset otherwise, whatever the response's timelength is.             *)
C5_PartDurationFromOwnLength ==
    pc = "done" =>
        \A n \in DOMAIN Durl :
            ResultEntries(result)[n].duration =
                IF Lacks(Durl[n], "length") THEN None
                ELSE Some(<<Durl[n].length[1] \div 1000, Durl[n].length[1] % 1000>>)

(* C6: when neither embedded-id pattern matches, the title is absent, or   *)
(* the response has no durl array, the extraction ends in an error and     *)
(* returns nothing, no single entry, no collection, no partial result;     *)
(* with neither pattern matching the error is the "not found" failure of   *)
(* the embedded-id search.                                                 *)
C6_FatalMeansNoResult ==
    /\ pc = "done" =>
          /\ (webpage.embedPlayer # None \/ webpage.iframe # None)
          /\ webpage.h1title # None
          /\ "durl" \in DOMAIN video_info
    /\ pc # "done" => result = None
    /\ pc = "failed" => error # "none"
    /\ (Terminal /\ webpage # None
          /\ webpage.embedPlayer = None /\ webpage.iframe = None) =>
          (pc = "failed" /\ error = PlayerParametersError)
    /\ Terminal \/ ENABLED Next

C6_Witness ==
    /\ pc = "failed"
    /\ error = TitleError
    /\ Len(entries) = 2
    /\ result = None

(* C7: a page with an embedded id and a title but no <time datetime=...>   *)
(* tag is extracted successfully, the returned timestamp is unset and a    *)
(* warning about the upload time is emitted; the missing timestamp never   *)
(* fails the extraction (only the stream descriptor still can).            *)
C7_MissingTimestampNotFatal ==
    /\ (pc = "done" /\ webpage.time = None) =>
          /\ UploadTimeWarning \in warnings
          /\ \A n \in DOMAIN ResultEntries(result) :
                ResultEntries(result)[n].timestamp = None
          /\ (IsCollection(result) => "timestamp" \notin DOMAIN result)
    /\ pc = "failed" => error # "RegexNotFoundError: Unable to extract upload time"
    /\ (Terminal /\ webpage # None /\ PageHasCid(webpage)
          /\ webpage.h1title # None /\ webpage.time = None) =>
          \/ pc = "done"
          \/ error \in { "ExtractorError: Unable to download JSON metadata",
                         "KeyError: durl", "KeyError: size" }

C7_Witness ==
    /\ pc = "done"
    /\ webpage.time = None
    /\ IsSingleEntry(result)
    /\ result.timestamp = None
    /\ warnings = {UploadTimeWarning}

(* C8: every stream API request carries the payload with its keys in the   *)
(* order appkey, cid, otype, quality, type, followed by sign; the cid is   *)
(* the one extracted from the page of the same call; sign is the Signer    *)
(* applied to exactly that payload concatenated with the fixed secret.     *)
C8_RequestSignedOverItsPayload ==
    request # None =>
        LET text == IF webpage.embedPlayer # None
                    THEN webpage.embedPlayer[1] ELSE webpage.iframe[1]
            first == CHOOSE i \in DOMAIN text :
                        /\ text[i][1] = "cid"
                        /\ \A j \in 1..(i - 1) : text[j][1] # "cid"
        IN  /\ [ n \in DOMAIN request |-> request[n][1] ] =
                   <<"appkey", "cid", "otype", "quality", "type", "sign">>
            /\ request[1][2] = "6f90a59ac58a4123"
            /\ request[2][2] = text[first][2]
            /\ <<request[3][2], request[4][2], request[5][2]>> = <<"json", "2", "mp4">>
            /\ request[6][2] =
                   md5_hexdigest(<<SubSeq(request, 1, 5),
                                   "0bfd84cc3940035173f35e6777508326">>)

C8_Witness ==
    /\ request # None
    /\ webpage.embedPlayer = None
    /\ request[2][2] = "678"
    /\ request[6][2].md5[1][2][2] = "678"

(* C9, as stated: a durl record with a primary URL and a backup URL list   *)
(* that lacks size, lacks length, or lacks both still extracts: the        *)
(* primary format has filesize unset, and the part's duration is unset     *)
(* when the length is absent.                                              *)
C9_SizeAndLengthOptional ==
    /\ pc = "failed" => error \notin {"KeyError: size", "KeyError: length"}
    /\ pc = "done" =>
          \A n \in DOMAIN Durl :
             LET entry == ResultEntries(result)[n]
             IN  /\ Lacks(Durl[n], "size") =>
                       \E k \in DOMAIN entry.formats :
                          /\ entry.formats[k].url = Durl[n].url
                          /\ "filesize" \in DOMAIN entry.formats[k]
                          /\ entry.formats[k].filesize = None
                 /\ Lacks(Durl[n], "length") => entry.duration = None

(* C10: the output shape depends only on the number of durl records: a     *)
(* single entry exactly when there is one record, a collection for every   *)
(* other count; an empty durl array gives a collection with zero entries   *)
(* and raises no error.                                                    *)
C10_ShapeByRecordCount ==
    /\ pc = "done" =>
          /\ IsSingleEntry(result) <=> Len(Durl) = 1
          /\ IsCollection(result) <=> Len(Durl) # 1
          /\ Len(ResultEntries(result)) = Len(Durl)
    /\ (pc = "search_title" /\ Durl = <<>>) => (entries = <<>> /\ error = "none")
    /\ (Terminal /\ "durl" \in DOMAIN video_info /\ Durl = <<>>
          /\ webpage.h1title # None) =>
          /\ pc = "done"
          /\ error = "none"
          /\ IsCollection(result)
          /\ result.entries = <<>>
    /\ (pc = "failed" /\ "durl" \in DOMAIN video_info) =>
          error \in {TitleError, "KeyError: size"}

C10_Witness ==
    /\ pc = "done"
    /\ Durl = <<>>
    /\ IsCollection(result)
    /\ result.entries = <<>>
    /\ error = "none"
====
